---------------------------- MODULE Spec2Model ----------------------------
(***************************************************************************)
(* A model of reflex::AbstractMatcher (absmatcher.h): the sliding input    *)
(* buffer, the position tracker and the lexer-action primitives.           *)
(*                                                                         *)
(* The matcher object is one record, m, whose fields carry the names of    *)
(* the members of the class.  Every member function is an operator from a  *)
(* matcher record to a matcher record (or to a pair <<record, result>>),   *)
(* written statement by statement from its body.  buf_ is the memory that  *)
(* starts at the address buf_: cells 0 .. max_-1 are the allocation, the   *)
(* cells from max_ on are the memory that follows it.  txt_ is kept as the *)
(* offset txt_ - buf_.  The record has one field that is no member of the  *)
(* class: org, the offset in the input (the bytes the source handed out    *)
(* since the last reset) of the byte that is now at buf_[0].  It follows   *)
(* the moves of the bytes: memmove and memcpy.                             *)
(***************************************************************************)
EXTENDS Integers, Sequences, FiniteSets, TLC

(***************************************************************************)
(* Bounds of the model.  BLOCK is Const::BLOCK scaled down from 4096: the  *)
(* buffer starts at 2*BLOCK cells and is doubled on demand, as in the      *)
(* source.                                                                 *)
(***************************************************************************)
BLOCK == 2
MaxSrc == 5
MaxOps == 3
MaxPart == 2
MaxOpt == 4
MaxMatchers == 3
MaxPatterns == 4
MaxBit == 130
MaxRun == 8

\* Const (absmatcher.h, struct Const)
SCAN == 0
FIND == 1
SPLIT == 2
EMPTY == 65535
UNK == 256
BOB == 257
EOB == 0 - 1
NL == 10

\* size_t arithmetic is modular; the width is scaled to 16 bits, far above
\* every index of the model.
SizeT == 2^16
Wrap(x) == x % SizeT
\* The signed offset a size_t index denotes when added to a pointer.
Idx(x) == IF x >= SizeT \div 2 THEN x - SizeT ELSE x

\* The cells of memory the model keeps, counted from buf_.
MemSize == 8 * BLOCK
Cells == 0 .. (MemSize - 1)
\* The content of a cell that was allocated and never written, or that lies
\* outside the memory the model keeps: an indeterminate value.
Indet == 0 - 2

SrcBytes == {NL, 97}
UnputBytes == {NL, 98}

Min(a, b) == IF a <= b THEN a ELSE b
MaxOf(S) == CHOOSE x \in S : \A y \in S : y <= x

\* buf_[i], read
Rd(buf, i) == IF Idx(i) \in Cells THEN buf[Idx(i)] ELSE Indet
\* buf_[i] = v, for a char v
Wr(buf, i, v) ==
  IF Idx(i) \in Cells
  THEN [buf EXCEPT ![Idx(i)] = IF v = Indet THEN Indet ELSE v % 256]
  ELSE buf
\* std::memmove(buf_ + dst, buf_ + src, n)
MemMove(buf, dst, src, n) ==
  [i \in Cells |->
     IF i >= dst /\ i < dst + n THEN Rd(buf, Wrap(src + (i - dst))) ELSE buf[i]]
\* new char[max_] followed by std::memcpy(newbuf, buf_ + src, n)
NewCopy(buf, src, n) ==
  [i \in Cells |-> IF i < n THEN Rd(buf, Wrap(src + i)) ELSE Indet]

(***************************************************************************)
(* The byte source (class Input, member AbstractMatcher::in).  data is the *)
(* bytes it has handed out so far, total the length of its whole character *)
(* sequence, sized whether size() can tell that length.  The bytes         *)
(* themselves are chosen when they are read: w is what the source would    *)
(* hand out in the next call of get(s, n), given room for all of it.  A    *)
(* subclass whose wrap() goes on with a successor source has the lengths   *)
(* of its successors in next, and from is where the current source began.  *)
(***************************************************************************)
\* in.size(): the total byte count when it is known, else 0
InSize(in) == IF in.sized THEN in.total - in.from ELSE 0
\* The number of bytes in.get(s, n) delivers: at most n, at most Len(w) >= 1
\* and 0 only at the end of the source.
InGetCount(in, n, w) == Min(Min(Len(w), n), in.total - Len(in.data))
\* AbstractMatcher::get(char *s, size_t n), s = buf_ + dst: in.get(s, n)
getInto(m, dst, n, w) ==
  LET c == InGetCount(m.in, n, w)
  IN  [m EXCEPT
         !.buf_ = [i \in Cells |->
                     IF i >= Idx(dst) /\ i < Idx(dst) + c
                     THEN w[(i - Idx(dst)) + 1]
                     ELSE @[i]],
         !.in.data = @ \o SubSeq(w, 1, c)]
\* what that call returns
getCount(m, n, w) == InGetCount(m.in, n, w)

\* wrap() that returns false also when there is a successor source
wrap_refuses(m) == FALSE

\* AbstractMatcher::wrap(): the default returns false (next is empty); the
\* wrap() of a subclass returns true while it has a successor source
wrap(m) == m.in.next # <<>>
\* the matcher after a wrap() that returned true: in is the successor
wrapped(m) ==
  [m EXCEPT !.in.from = Len(m.in.data),
            !.in.total = Len(m.in.data) + Head(m.in.next),
            !.in.next = Tail(@)]

\* AbstractMatcher::update()
update(m) ==
  LET g  == Idx(m.txt_)
      nl == {i \in Cells : i < g /\ m.buf_[i] = NL}
  IN  [m EXCEPT
         !.lno_ = Wrap(@ + Cardinality(nl)),
         !.cno_ = IF nl = {} THEN Wrap(@ + g) ELSE Wrap(g - MaxOf(nl)),
         !.num_ = Wrap(@ + g)]

RECURSIVE Doubled(_, _)
\* while (max_ < newmax) max_ *= 2;
Doubled(max, newmax) == IF max < newmax THEN Doubled(Wrap(max * 2), newmax) ELSE max

\* the assignments both branches of grow share: cur_ -= gap; ... end_ -= gap;
Rebase(m, gap) ==
  [m EXCEPT !.cur_ = Wrap(@ - gap), !.ind_ = Wrap(@ - gap),
            !.pos_ = Wrap(@ - gap), !.end_ = Wrap(@ - gap)]

\* AbstractMatcher::grow(need), the record it leaves
grow(m, need) ==
  IF Wrap(m.max_ - m.end_) >= need THEN m
  ELSE
    LET gap == m.txt_
    IN  IF gap >= need
        THEN LET u == Rebase(update(m), gap)
             IN  [u EXCEPT !.buf_ = MemMove(@, 0, gap, u.end_), !.txt_ = 0,
                           !.org = @ + Idx(gap)]
        ELSE LET newmax == Wrap(Wrap(m.end_ - gap) + need)
                 max2   == Doubled(m.max_, newmax)
             IN  IF m.max_ < max2
                 THEN LET u == Rebase(update(m), gap)
                      IN  [u EXCEPT !.max_ = max2,
                                    !.buf_ = NewCopy(@, gap, u.end_),
                                    !.txt_ = 0, !.org = @ + Idx(gap)]
                 ELSE m

\* end_ += get(buf_ + end_, blk_ ? blk_ : max_ - end_);
ReadSize(m) == IF m.blk_ # 0 THEN m.blk_ ELSE Wrap(m.max_ - m.end_)
fill(m, w) ==
  LET n == ReadSize(m)
      r == getInto(m, m.end_, n, w)
  IN  [r EXCEPT !.end_ = Wrap(@ + getCount(m, n, w))]

RECURSIVE getLoop(_, _)
\* the while (true) loop of get()
getLoop(m, w) ==
  LET r == fill(m, w)
  IN  IF r.pos_ < r.end_
      THEN <<[r EXCEPT !.pos_ = Wrap(@ + 1)], Rd(r.buf_, r.pos_)>>
      ELSE IF ~wrap(r) THEN <<[r EXCEPT !.eof_ = TRUE], EOB>>
      ELSE getLoop(wrapped(r), w)

\* get() without its if (eof_) return EOF: it reads on after the end
get_ignores_eof(m, w) ==
  IF m.pos_ < m.end_
  THEN <<[m EXCEPT !.pos_ = Wrap(@ + 1)], Rd(m.buf_, m.pos_)>>
  ELSE getLoop(IF m.end_ = m.max_ THEN grow(m, BLOCK) ELSE m, w)

\* AbstractMatcher::get(void): <<the matcher it leaves, the character>>
get(m, w) ==
  IF m.pos_ < m.end_
  THEN <<[m EXCEPT !.pos_ = Wrap(@ + 1)], Rd(m.buf_, m.pos_)>>
  ELSE IF m.eof_ THEN <<m, EOB>>
  ELSE getLoop(IF m.end_ = m.max_ THEN grow(m, BLOCK) ELSE m, w)

RECURSIVE peekLoop(_, _)
\* the while (true) loop of peek()
peekLoop(m, w) ==
  LET r == fill(m, w)
  IN  IF r.pos_ < r.end_ THEN <<r, Rd(r.buf_, r.pos_)>>
      ELSE IF ~wrap(r) THEN <<[r EXCEPT !.eof_ = TRUE], EOB>>
      ELSE peekLoop(wrapped(r), w)

\* AbstractMatcher::peek(): <<the matcher it leaves, the character>>
peek(m, w) ==
  IF m.pos_ < m.end_ THEN <<m, Rd(m.buf_, m.pos_)>>
  ELSE IF m.eof_ THEN <<m, EOB>>
  ELSE peekLoop(IF m.end_ = m.max_ THEN grow(m, BLOCK) ELSE m, w)

\* AbstractMatcher::set_current(loc)
set_current(m, loc) ==
  [m EXCEPT !.pos_ = loc, !.cur_ = loc,
            !.got_ = IF loc > 0 THEN Rd(m.buf_, Wrap(loc - 1)) ELSE UNK,
            !.chr_ = IF loc < m.end_ THEN Rd(m.buf_, loc) ELSE UNK]

(***************************************************************************)
(* The public operations of AbstractMatcher.                               *)
(***************************************************************************)
\* reset() without its len_ = 0: a reset that keeps the size of the match
reset_keeps_len(m) ==
  [m EXCEPT !.buf_ = Wr(@, 0, 0), !.txt_ = 0, !.cap_ = 0,
            !.cur_ = 0, !.pos_ = 0, !.end_ = 0, !.ind_ = 0, !.lno_ = 1,
            !.cno_ = 0, !.num_ = 0, !.got_ = BOB, !.chr_ = UNK,
            !.eof_ = FALSE, !.mat_ = FALSE, !.blk_ = 0, !.org = 0]

\* AbstractMatcher::reset(NULL): the statements after the option parsing
reset(m) ==
  [m EXCEPT !.buf_ = Wr(@, 0, 0), !.txt_ = 0, !.len_ = 0, !.cap_ = 0,
            !.cur_ = 0, !.pos_ = 0, !.end_ = 0, !.ind_ = 0, !.lno_ = 1,
            !.cno_ = 0, !.num_ = 0, !.got_ = BOB, !.chr_ = UNK,
            !.eof_ = FALSE, !.mat_ = FALSE, !.blk_ = 0, !.org = 0]

(***************************************************************************)
(* reset(opt) with an option string.  The string is the characters of opt, *)
(* the terminating 0 and then the memory that follows the string, which    *)
(* the loop of reset reads when a 'T' is the last character: the ++s of    *)
(* the for statement then steps over the terminator.                       *)
(***************************************************************************)
\* the characters 'A', 'N', 'T', '=', ';', '4', '0' of option strings
OptChars == {65, 78, 84, 61, 59, 52, 48}
\* isdigit(c)
isdigit(c) == c \in 48 .. 57
\* *s, for s = opt + (i - 1)
CharAt(str, i) == IF i <= Len(str) THEN str[i] ELSE 0
\* opt_.A = false; opt_.N = false; opt_.T = 8;
OptDefaults == [A |-> FALSE, N |-> FALSE, T |-> 8]

\* case 'T' without the s += of its argument: the tab size is read at 'T'
\* itself, which is no digit
optT_in_place(o, str, i) == <<[o EXCEPT !.T = 0], i>>

\* case 'T': opt_.T = isdigit(*(s += (s[1] == '=') + 1)) ? *s - '0' : 0;
\* <<the options, the index s is left at>>
optT(o, str, i) ==
  LET j == i + (IF CharAt(str, i + 1) = 61 THEN 1 ELSE 0) + 1
  IN  <<[o EXCEPT !.T = IF isdigit(CharAt(str, j)) THEN CharAt(str, j) - 48 ELSE 0], j>>

RECURSIVE parseOptions(_, _, _)
\* for (const char *s = opt; *s != '\0'; ++s) switch (*s) ...
parseOptions(o, str, i) ==
  IF CharAt(str, i) = 0 THEN o
  ELSE IF CharAt(str, i) = 65 THEN parseOptions([o EXCEPT !.A = TRUE], str, i + 1)
  ELSE IF CharAt(str, i) = 78 THEN parseOptions([o EXCEPT !.N = TRUE], str, i + 1)
  ELSE IF CharAt(str, i) = 84
       THEN LET t == optT(o, str, i) IN parseOptions(t[1], str, t[2] + 1)
  ELSE parseOptions(o, str, i + 1)

RECURSIVE lastRead(_, _)
\* the same loop: the largest index of str that it reads (*s of the loop
\* test and of the switch, s[1] and *s of case 'T')
lastRead(str, i) ==
  IF CharAt(str, i) = 0 THEN i
  ELSE IF CharAt(str, i) = 84
       THEN lastRead(str, optT(OptDefaults, str, i)[2] + 1)
  ELSE lastRead(str, i + 1)

\* AbstractMatcher::reset(opt) with opt != NULL; str is opt in memory
resetOptions(m, str) == reset([m EXCEPT !.opt_ = parseOptions(OptDefaults, str, 1)])

\* AbstractMatcher::input(const Input& inp)
inputSource(m, inp) == reset([m EXCEPT !.in = inp])

\* accessors
accept(m) == m.cap_
size(m) == m.len_
\* text(), as the size() bytes at txt_
text(m) == [i \in 1 .. m.len_ |-> Rd(m.buf_, Wrap(m.txt_ + (i - 1)))]
\* the byte that ends the C string text() points to: txt_[len_]
textEnd(m) == Rd(m.buf_, Wrap(m.txt_ + m.len_))
lineno(m) ==
  Wrap(m.lno_ + Cardinality({i \in Cells : i < Idx(m.txt_) /\ m.buf_[i] = NL}))
\* columno() that counts the newline itself: txt_ - s in place of txt_ - s - 1
columno_from_newline(m) ==
  LET g  == Idx(m.txt_)
      nl == {i \in Cells : i < g /\ m.buf_[i] = NL}
  IN  IF nl # {} THEN Wrap(g - MaxOf(nl)) ELSE Wrap(m.cno_ + g)

columno(m) ==
  LET g  == Idx(m.txt_)
      nl == {i \in Cells : i < g /\ m.buf_[i] = NL}
  IN  IF nl # {} THEN Wrap(g - MaxOf(nl) - 1) ELSE Wrap(m.cno_ + g)
first(m) == Wrap(m.num_ + m.txt_)
last(m) == Wrap(first(m) + size(m))
at_bob(m) == m.got_ = BOB
hit_end(m) == m.pos_ = m.end_ /\ m.eof_
at_bol(m) == m.got_ = NL

\* AbstractMatcher::flush()
flush(m) == [m EXCEPT !.pos_ = m.end_]

\* AbstractMatcher::set_end(eof)
set_end(m, eof) == [(IF eof THEN flush(m) ELSE m) EXCEPT !.eof_ = eof]

\* AbstractMatcher::set_bol(bol)
set_bol(m, bol) ==
  IF bol THEN [m EXCEPT !.got_ = NL]
  ELSE IF m.got_ = NL THEN [m EXCEPT !.got_ = UNK] ELSE m

\* AbstractMatcher::at_end(): <<the matcher it leaves, the result>>
at_end(m, w) ==
  IF m.pos_ # m.end_ THEN <<m, FALSE>>
  ELSE IF m.eof_ THEN <<m, TRUE>>
  ELSE LET p == peek(m, w) IN <<p[1], p[2] = EOB>>

\* AbstractMatcher::buffer(blk): <<the matcher it leaves, the result>>
buffer(m, blk, w) ==
  LET b  == Min(blk, BLOCK)
      m1 == [m EXCEPT !.blk_ = b]
  IN  IF b # 0 THEN <<m1, TRUE>>
      ELSE IF ~at_bob(m1) THEN <<m1, FALSE>>
      ELSE LET n == InSize(m1.in)
           IN  IF n = 0 THEN <<m1, FALSE>>
               ELSE LET g == grow(m1, n)
                        r == getInto(g, 0, g.max_, w)
                    IN  IF getCount(g, g.max_, w) # n THEN <<r, FALSE>>
                        ELSE <<[r EXCEPT !.eof_ = TRUE], TRUE>>

\* if (pos_ < end_) buf_[pos_] = chr_;
restore(m) ==
  IF m.pos_ < m.end_ THEN [m EXCEPT !.buf_ = Wr(@, m.pos_, m.chr_)] ELSE m

\* input() that returns the byte of the buffer and not the kept chr_
input_from_buffer(m, w) ==
  LET a == IF m.pos_ < m.end_
           THEN [m EXCEPT !.got_ = Rd(m.buf_, m.pos_), !.pos_ = Wrap(@ + 1)]
           ELSE LET g == get(m, w) IN [g[1] EXCEPT !.got_ = g[2]]
      b == IF a.pos_ < a.end_ THEN [a EXCEPT !.chr_ = Rd(a.buf_, a.pos_)] ELSE a
  IN  <<[b EXCEPT !.cur_ = b.pos_], b.got_>>

\* AbstractMatcher::input(void): <<the matcher it leaves, the character>>
input(m, w) ==
  LET a == IF m.pos_ < m.end_
           THEN [m EXCEPT !.got_ = m.chr_, !.pos_ = Wrap(@ + 1)]
           ELSE LET g == get(m, w) IN [g[1] EXCEPT !.got_ = g[2]]
      b == IF a.pos_ < a.end_ THEN [a EXCEPT !.chr_ = Rd(a.buf_, a.pos_)] ELSE a
  IN  <<[b EXCEPT !.cur_ = b.pos_], b.got_>>

\* unput(c) without its chr_ = c: the character is not kept
unput_drops_char(m, c) ==
  LET a == restore(m)
      b == IF a.pos_ > 0 THEN [a EXCEPT !.pos_ = @ - 1]
           ELSE LET t == [a EXCEPT !.txt_ = 0, !.len_ = 0]
                    g == IF t.end_ = t.max_ THEN grow(t, BLOCK) ELSE t
                IN  [g EXCEPT !.buf_ = MemMove(@, 1, 0, g.end_),
                              !.end_ = Wrap(@ + 1), !.org = @ - 1]
  IN  [b EXCEPT !.cur_ = b.pos_]

\* AbstractMatcher::unput(c)
unput(m, c) ==
  LET a == restore(m)
      b == IF a.pos_ > 0 THEN [a EXCEPT !.pos_ = @ - 1]
           ELSE LET t == [a EXCEPT !.txt_ = 0, !.len_ = 0]
                    g == IF t.end_ = t.max_ THEN grow(t, BLOCK) ELSE t
                IN  [g EXCEPT !.buf_ = MemMove(@, 1, 0, g.end_),
                              !.end_ = Wrap(@ + 1), !.org = @ - 1]
  IN  [b EXCEPT !.chr_ = c, !.cur_ = b.pos_]

RECURSIVE restLoop(_, _)
\* the while (!eof_) loop of rest(); w is all that the source still holds,
\* and each call of get(s, n) hands out as much of it as fits in n
restLoop(m, w) ==
  IF m.eof_ THEN m
  ELSE LET g == grow(m, BLOCK)
           p == [g EXCEPT !.pos_ = g.end_]
           r == fill(p, w)
           c == getCount(p, ReadSize(p), w)
       IN  IF r.pos_ = r.end_
           THEN IF ~wrap(r) THEN [r EXCEPT !.eof_ = TRUE]
                ELSE restLoop(wrapped(r), w)
           ELSE restLoop(r, SubSeq(w, c + 1, Len(w)))

\* AbstractMatcher::rest(); the string it returns is text() of the result
rest(m, w) ==
  LET a == restore(m)
      b == IF a.pos_ > 0
           THEN LET t == update([a EXCEPT !.txt_ = a.pos_])
                    e == Wrap(t.end_ - t.pos_)
                IN  [t EXCEPT !.end_ = e, !.buf_ = MemMove(@, 0, t.pos_, e),
                              !.org = @ + Idx(t.pos_)]
           ELSE a
      d == restLoop([b EXCEPT !.txt_ = 0], w)
  IN  [d EXCEPT !.cur_ = 0, !.pos_ = 0, !.chr_ = Rd(d.buf_, 0),
                !.len_ = d.end_, !.buf_ = Wr(@, d.end_, 0)]

\* more() without its cur_ = txt_ - buf_: no rewind
more_no_rewind(m) == m

\* more() with cur_ = pos_ - buf_: the cursor at the end of the match
more_at_pos(m) == [m EXCEPT !.cur_ = m.pos_]

\* AbstractMatcher::more()
more(m) == [m EXCEPT !.cur_ = m.txt_]

\* less(n) without its chr_ = buf_[pos_]: the held character is not taken
less_keeps_chr(m, n) ==
  IF n < m.len_
  THEN LET a == [m EXCEPT !.buf_ = Wr(@, m.pos_, m.chr_)]
           p == Wrap(a.txt_ + n)
       IN  [a EXCEPT !.pos_ = p, !.buf_ = Wr(@, p, 0), !.len_ = n, !.cur_ = p]
  ELSE m

\* AbstractMatcher::less(n)
less(m, n) ==
  IF n < m.len_
  THEN LET a == [m EXCEPT !.buf_ = Wr(@, m.pos_, m.chr_)]
           p == Wrap(a.txt_ + n)
       IN  [a EXCEPT !.pos_ = p, !.chr_ = Rd(a.buf_, p),
                     !.buf_ = Wr(@, p, 0), !.len_ = n, !.cur_ = p]
  ELSE m

(***************************************************************************)
(* The engine: the pure virtual match(method) of a subclass.  It is written *)
(* from its contract: it puts the held character back, starts the text at  *)
(* the cursor, reads with get(), and on return has set txt_, len_, cur_,   *)
(* pos_, got_, chr_ (with set_current) and cap_, with the NUL sentinel at  *)
(* buf_[pos_].  A scan matches at the cursor, a find may skip bytes first. *)
(***************************************************************************)
\* entry of match(method)
matchBegin(m) == [restore(m) EXCEPT !.txt_ = m.cur_, !.len_ = 0]

\* return of match(method): the span [s, e) is accepted with index cap (cap
\* = 0 and s = e: no match), and the next match starts at e
matchReturn(m, s, e, cap) ==
  LET a == set_current([m EXCEPT !.txt_ = s, !.len_ = Wrap(e - s), !.cap_ = cap], e)
  IN  [a EXCEPT !.buf_ = Wr(@, e, 0)]

\* matches(): mat_ == 0 && at_bob()
matchesCalls(m) == m.mat_ = FALSE /\ at_bob(m)

matchesEnd_any(m, w) == [m EXCEPT !.mat_ = m.cap_ # 0]

\* matches(): mat_ = match(Const::MATCH) && at_end(), after match returned
matchesEnd(m, w) ==
  IF m.cap_ # 0
  THEN LET a == at_end(m, w) IN [a[1] EXCEPT !.mat_ = a[2]]
  ELSE [m EXCEPT !.mat_ = FALSE]

\* matches() returns mat_
matchesResult(m) == IF m.mat_ THEN 1 ELSE 0

(***************************************************************************)
(* PatternMatcher: own_ and pat_ of a matcher x, and the pattern objects h *)
(* of the program.  A pattern object records who made it (0: the lexer, k: *)
(* matcher k, with new Pattern(regex)) and how often it has been deleted;  *)
(* pat_ is the index of a pattern object in h.                             *)
(***************************************************************************)
\* delete pat_
deletePattern(h, p) == [h EXCEPT ![p].dels = @ + 1]
\* new Pattern(regex), by matcher k
newPattern(h, k) == Append(h, [made |-> k, dels |-> 0])

\* PatternMatcher(pat, inp, opt): own_(false), pat_(&pat)
constructObject(p) == [live |-> TRUE, own_ |-> FALSE, pat_ |-> p, from |-> 0]
\* PatternMatcher(regex, inp, opt): own_(true), pat_(new Pattern(regex))
constructRegex(h) == [live |-> TRUE, own_ |-> TRUE, pat_ |-> Len(h) + 1, from |-> 0]
\* PatternMatcher(matcher), of matcher number k: own_(false), pat_(matcher.pat_)
copyMatcher(x, k) == [live |-> TRUE, own_ |-> FALSE, pat_ |-> x.pat_, from |-> k]

\* pattern(pat), pat the pattern object p
patternObject(x, h, p) ==
  IF x.pat_ # p
  THEN <<[x EXCEPT !.pat_ = p, !.own_ = FALSE],
         IF x.own_ THEN deletePattern(h, x.pat_) ELSE h>>
  ELSE <<x, h>>

\* pattern(regex), by matcher k
patternRegex(x, h, k) ==
  LET d == IF x.own_ THEN deletePattern(h, x.pat_) ELSE h
  IN  <<[x EXCEPT !.pat_ = Len(d) + 1, !.own_ = TRUE], newPattern(d, k)>>

destroy_any(x, h) == <<[x EXCEPT !.live = FALSE], deletePattern(h, x.pat_)>>

\* ~PatternMatcher(): if (own_) delete pat_
destroy(x, h) ==
  <<[x EXCEPT !.live = FALSE], IF x.own_ THEN deletePattern(h, x.pat_) ELSE h>>

(***************************************************************************)
(* Bits: len_ words of 64 bits; a word is the set of the positions 0 .. 63 *)
(* of its bits that are set, vec_ the sequence of the words (vec_[i] of    *)
(* the source is vec_[i + 1] here).                                        *)
(***************************************************************************)
npos == 0 - 1
\* n >> 6 and n & 0x3F
WordOf(n) == n \div 64
BitOf(n) == n % 64
\* Bits()
NoBits == [len_ |-> 0, vec_ |-> <<>>]

RECURSIVE PowerFor(_, _)
\* alloc: k = 1; while (k < len) k <<= 1
PowerFor(k, len) == IF k < len THEN PowerFor(2 * k, len) ELSE k

\* alloc(len): a zeroed array of k words, the old words copied into it
alloc(b, len) ==
  IF len > b.len_
  THEN LET k == PowerFor(1, len)
       IN  [len_ |-> k,
            vec_ |-> [i \in 1 .. k |-> IF i <= b.len_ THEN b.vec_[i] ELSE {}]]
  ELSE b

\* operator[](n) const
test(b, n) == IF WordOf(n) < b.len_ THEN BitOf(n) \in b.vec_[WordOf(n) + 1] ELSE FALSE

\* for (i = n1; i <= n2; ++i) vec_[i >> 6] |= 1UL << (i & 0x3F)
SetRange(v, n1, n2) ==
  [i \in 1 .. Len(v) |-> v[i] \cup {BitOf(n) : n \in {q \in n1 .. n2 : WordOf(q) + 1 = i}}]
\* for (i = n1; i <= n2; ++i) vec_[i >> 6] &= ~(1UL << (i & 0x3F))
ClearRange(v, n1, n2) ==
  [i \in 1 .. Len(v) |-> v[i] \ {BitOf(n) : n \in {q \in n1 .. n2 : WordOf(q) + 1 = i}}]

\* insert(n)
insert(b, n) ==
  LET a == alloc(b, WordOf(n) + 1) IN [a EXCEPT !.vec_ = SetRange(@, n, n)]
\* insert(n1, n2)
insertRange(b, n1, n2) ==
  LET a == alloc(b, WordOf(n2) + 1) IN [a EXCEPT !.vec_ = SetRange(@, n1, n2)]
\* erase(n)
erase(b, n) ==
  IF WordOf(n) < b.len_ THEN [b EXCEPT !.vec_ = ClearRange(@, n, n)] ELSE b

eraseRange_to_last(b, n1, n2) ==
  IF WordOf(n1) < b.len_
  THEN [b EXCEPT !.vec_ = ClearRange(@, n1, b.len_ * 64 - 1)]
  ELSE b

\* erase(n1, n2)
eraseRange(b, n1, n2) ==
  IF WordOf(n1) < b.len_
  THEN LET to == IF WordOf(n2) >= b.len_ THEN (b.len_ - 1) * 64 ELSE n2
       IN  [b EXCEPT !.vec_ = ClearRange(@, n1, to)]
  ELSE b

\* operator|=(bits)
bitor(b, c) ==
  LET a == alloc(b, c.len_)
  IN  [a EXCEPT !.vec_ = [i \in 1 .. a.len_ |->
                            IF i <= c.len_ THEN a.vec_[i] \cup c.vec_[i] ELSE a.vec_[i]]]

\* for (j = from; j < 64; ++j) if (word & 1UL << j) return j: the first bit
\* of the word at or after from, or npos
FirstBit(word, from) ==
  LET s == {j \in word : j >= from}
  IN  IF s = {} THEN npos ELSE CHOOSE j \in s : \A q \in s : j <= q

RECURSIVE FirstWord(_, _)
\* for (i = i + 1; i < len_; ++i) if (vec_[i]) ...: the first bit of the
\* words from word i on, or npos
FirstWord(b, i) ==
  IF i < b.len_
  THEN IF b.vec_[i + 1] # {}
       THEN i * 64 + FirstBit(b.vec_[i + 1], 0)
       ELSE FirstWord(b, i + 1)
  ELSE npos

find_first_here(b, n) ==
  LET i == WordOf(n)
      j == IF i < b.len_ THEN FirstBit(b.vec_[i + 1], BitOf(n)) ELSE npos
  IN  IF j # npos THEN i * 64 + j ELSE npos

\* find_first(n)
find_first(b, n) ==
  LET i == WordOf(n)
      j == IF i < b.len_ /\ b.vec_[i + 1] # {}
           THEN FirstBit(b.vec_[i + 1], BitOf(n))
           ELSE npos
  IN  IF j # npos THEN i * 64 + j ELSE FirstWord(b, i + 1)

\* find_next(n)
find_next(b, n) == find_first(b, n + 1)

RECURSIVE CountFrom(_, _, _)
\* count(): while ((n = find_first(n)) != npos) ++n, ++k
CountFrom(b, n, k) ==
  LET f == find_first(b, n)
  IN  IF f # npos THEN CountFrom(b, f + 1, k + 1) ELSE k
count(b) == CountFrom(b, 0, 0)

RECURSIVE WalkFrom(_, _)
\* for (i = find_first(); i != npos; i = find_next(i)): the positions visited
WalkFrom(b, i) == IF i = npos THEN <<>> ELSE <<i>> \o WalkFrom(b, find_next(b, i))
Walk(b) == WalkFrom(b, find_first(b, 0))

VARIABLES
  m,       \* the matcher object
  pc,      \* "idle", or "match" while the engine's match() is running
  nread,   \* the bytes the running match has read with get()
  op,      \* the last public operation that returned
  base,    \* the bytes the source had handed out at the last reset()
  nops,    \* the public operations called so far
  lim,     \* the number of public operations the run may call
  kept,    \* <<text(), first()>> of the match more() was called after
  it,      \* the iterator of the matcher, and the matches made for it
  pm,      \* own_ and pat_ of the pattern matchers of the program
  heap,    \* the pattern objects of the program
  bits     \* a Bits object

vars == <<m, pc, nread, op, base, nops, lim, kept, it, pm, heap, bits>>
\* the matcher m and the lexer's run
core == <<m, pc, nread, op, base, nops, lim, kept, it>>
\* the objects beside the matcher m
side == <<pm, heap, bits>>

Seqs(S, n) == UNION {[1 .. l -> S] : l \in 0 .. n}
\* the sources a matcher may be given
Sources ==
  [data : {<<>>}, total : 0 .. MaxSrc, sized : {TRUE}, from : {0}, next : {<<>>}]
RECURSIVE SumSeq(_)
SumSeq(q) == IF q = <<>> THEN 0 ELSE Head(q) + SumSeq(Tail(q))
\* the sources of a subclass with wrap(): a first source of at most MaxPart
\* bytes and at most two successors of at most MaxPart bytes together
WrapSources ==
  [data : {<<>>}, total : 0 .. MaxPart, sized : {TRUE}, from : {0},
   next : {q \in Seqs(0 .. MaxPart, 2) : SumSeq(q) <= MaxPart}]
\* the bytes the source and its successors still hold
Left(in) == (in.total - Len(in.data)) + SumSeq(in.next)
\* what a source may hand out in one call of get(s, n): at least one byte
\* (the choice is left out where it cannot matter: the source is at its
\* end, or the operation reads nothing from it)
Reads(in) ==
  LET left == IF in.total # Len(in.data) THEN in.total - Len(in.data)
              ELSE IF in.next = <<>> THEN 0
              ELSE MaxOf({in.next[i] : i \in 1 .. Len(in.next)})
  IN  IF left = 0 THEN {<<NL>>}
      ELSE {w \in Seqs(SrcBytes, MaxSrc) : 1 <= Len(w) /\ Len(w) <= left}
\* get(), peek(), input() and at_end() read the source only here
Refills(mm) == IF mm.pos_ < mm.end_ \/ mm.eof_ THEN {<<NL>>} ELSE Reads(mm.in)
\* all that a source still holds
Future(in) == {w \in Seqs(SrcBytes, MaxSrc) : Len(w) = Left(in)}

\* AbstractMatcher::AbstractMatcher(inp, "") and init(opt):
\* buf_ = new char[max_ = 2 * Const::BLOCK]; reset(opt);
Constructed(inp) ==
  reset([buf_ |-> [i \in Cells |-> Indet], txt_ |-> 0, len_ |-> 0, cap_ |-> 0,
         cur_ |-> 0, pos_ |-> 0, end_ |-> 0, max_ |-> 2 * BLOCK, ind_ |-> 0,
         blk_ |-> 0, got_ |-> BOB, chr_ |-> UNK, lno_ |-> 1, cno_ |-> 0,
         num_ |-> 0, eof_ |-> FALSE, mat_ |-> FALSE,
         opt_ |-> [A |-> FALSE, N |-> FALSE, T |-> 8], in |-> inp,
         org |-> 0])

(***************************************************************************)
(* Iterator: matcher_ is 1 for a pointer to the matcher and 0 for NULL,    *)
(* method_ is the method of its matches.  log (the method and the result   *)
(* of each match made for the iterator, oldest first) and incs (the calls  *)
(* of operator++) are history, not fields of the class.                    *)
(***************************************************************************)
Methods == {SCAN, FIND, SPLIT}
\* Iterator(void): matcher_(NULL), method_ is not initialised
Ends == {[matcher_ |-> 0, method_ |-> k, log |-> <<>>, incs |-> 0] : k \in Methods}
NoIterator == [matcher_ |-> 0, method_ |-> SCAN, log |-> <<>>, incs |-> 0]
\* Iterator(matcher, method), before its body
Iterator(method) == [matcher_ |-> 1, method_ |-> method, log |-> <<>>, incs |-> 0]
\* operator==
IteratorEq(a, b) == a.matcher_ = b.matcher_
\* operator* of an iterator that is not end(): return *matcher_, the
\* matcher mm as it is when the iterator is dereferenced
Deref(i, mm) == mm

increment_keeps(i, r) == i

\* if (matcher_->match(method_) == 0) matcher_ = NULL;
increment(i, r) == IF r = 0 THEN [i EXCEPT !.matcher_ = 0] ELSE i

\* the engine's match() is running, for the lexer, an iterator or matches()
Running == pc \in {"match", "iter", "matches"}

\* no pattern matcher, no pattern object, and an empty Bits
NoSide == pm = <<>> /\ heap = <<>> /\ bits = NoBits

\* a matcher is constructed on a source, for a run of k public operations
InitCore(S, k) ==
  /\ \E inp \in S : m = Constructed(inp)
  /\ pc = "idle"
  /\ nread = 0
  /\ op = "new"
  /\ base = 0
  /\ nops = 0
  /\ lim = k
  /\ kept = <<>>
  /\ it = NoIterator

InitOn(S, k) == InitCore(S, k) /\ NoSide

InitWith(k) == InitOn(Sources, k)

\* the option strings reset(opt) may be given
OptStrings == Seqs(OptChars, MaxOpt)
\* what may be in memory after the terminating 0 of an option string
OptAfter == {<<>>, <<65>>, <<78>>}
\* opt in memory: its characters, the 0, what follows, and a 0
OptMemory(opt, after) == opt \o <<0>> \o after \o <<0>>
\* the values opt_ may have when no statement has assigned it
OptIndet == [A : BOOLEAN, N : BOOLEAN, T : {0, 8, 100}]

\* AbstractMatcher::AbstractMatcher(inp, NULL) and init(NULL): reset(NULL)
\* assigns nothing to opt_, which no constructor initialises
ConstructedNull(inp, o) == [Constructed(inp) EXCEPT !.opt_ = o]

Init == InitWith(MaxOps)

\* a public operation is called and returns
Call(name) ==
  /\ pc = "idle"
  /\ nops < lim
  /\ nops' = nops + 1
  /\ pc' = "idle"
  /\ op' = name
  /\ nread' = 0
  /\ lim' = lim
  /\ kept' = IF name = "more" /\ op = "match" /\ m.cap_ # 0
             THEN <<text(m), first(m)>>
             ELSE <<>>
  /\ it' = it
  /\ UNCHANGED side

Reset ==
  /\ Call("reset")
  /\ m' = reset(m)
  /\ base' = Len(m.in.data)

InputSource ==
  /\ Call("input_source")
  /\ \E inp \in Sources : m' = inputSource(m, inp)
  /\ base' = 0

\* reset(opt) with an option string
ResetOptions ==
  /\ Call("reset_opt")
  /\ \E opt \in OptStrings, after \in OptAfter :
       m' = resetOptions(m, OptMemory(opt, after))
  /\ base' = Len(m.in.data)

Buffer ==
  /\ Call("buffer")
  /\ \E blk \in 0 .. (BLOCK + 1), w \in Reads(m.in) : m' = buffer(m, blk, w)[1]
  /\ UNCHANGED base

MatchBegin ==
  /\ pc = "idle"
  /\ nops < lim
  /\ m' = matchBegin(m)
  /\ pc' = "match"
  /\ nread' = 0
  /\ kept' = IF op = "more" THEN kept ELSE <<>>
  /\ UNCHANGED <<op, base, nops, lim, it, side>>

\* the engine reads one more character, unless it has seen EOF
MatchGet ==
  /\ Running
  /\ ~hit_end(m)
  /\ \E w \in Refills(m) :
       LET g == get(m, w)
       IN  /\ m' = g[1]
           /\ nread' = IF g[2] = EOB THEN nread ELSE nread + 1
  /\ UNCHANGED <<pc, op, base, nops, lim, kept, it, side>>

\* where the running match began to read
ReadFrom == Idx(m.pos_) - nread

\* match(method) returns cap to its caller: the lexer, an iterator
\* (Iterator(matcher, method) and operator++ end the iterator on 0), or
\* matches(), which goes on to at_end()
MatchReturns(cap) ==
  /\ Running
  /\ pc' = IF pc = "matches" THEN "at_end" ELSE "idle"
  /\ op' = pc
  /\ nread' = 0
  /\ nops' = nops + 1
  /\ it' = IF pc = "iter"
           THEN [increment(it, cap) EXCEPT !.log = Append(@, <<it.method_, cap>>)]
           ELSE it
  /\ UNCHANGED <<base, lim, kept, side>>

\* the engine accepts [s, e): e is at or after the position the match began
\* to read at and at most the position it has read to, the span is not
\* empty, and it starts at the cursor or after skipped bytes
MatchAccept ==
  /\ MatchReturns(1)
  /\ \E s \in Cells, e \in Cells :
       /\ ReadFrom <= e /\ e <= Idx(m.pos_)
       /\ s < e
       /\ s = Idx(m.txt_) \/ (Idx(m.txt_) < s /\ ReadFrom <= s)
       /\ m' = matchReturn(m, s, e, 1)

\* the engine finds no match and goes back to where the text began
MatchFail ==
  /\ MatchReturns(0)
  /\ m' = matchReturn(m, m.txt_, m.txt_, 0)

Input ==
  /\ Call("input")
  /\ \E w \in Refills(m) : m' = input(m, w)[1]
  /\ UNCHANGED base

Unput ==
  /\ Call("unput")
  /\ \E c \in UnputBytes : m' = unput(m, c)
  /\ UNCHANGED base

Rest ==
  /\ Call("rest")
  /\ \E w \in Future(m.in) : m' = rest(m, w)
  /\ UNCHANGED base

More ==
  /\ Call("more")
  /\ m' = more(m)
  /\ UNCHANGED base

Less ==
  /\ Call("less")
  /\ \E n \in 0 .. m.len_ : m' = less(m, n)
  /\ UNCHANGED base

Flush ==
  /\ Call("flush")
  /\ m' = flush(m)
  /\ UNCHANGED base

SetEnd ==
  /\ Call("set_end")
  /\ \E b \in BOOLEAN : m' = set_end(m, b)
  /\ UNCHANGED base

SetBol ==
  /\ Call("set_bol")
  /\ \E b \in BOOLEAN : m' = set_bol(m, b)
  /\ UNCHANGED base

AtEnd ==
  /\ Call("at_end")
  /\ \E w \in Refills(m) : m' = at_end(m, w)[1]
  /\ UNCHANGED base

\* Operation::begin(): Iterator(matcher, method) resets the matcher and
\* calls match(method)
Begin ==
  /\ pc = "idle"
  /\ nops < lim
  /\ \E method \in Methods : it' = Iterator(method)
  /\ m' = matchBegin(reset(m))
  /\ pc' = "iter"
  /\ nread' = 0
  /\ base' = Len(m.in.data)
  /\ kept' = <<>>
  /\ UNCHANGED <<op, nops, lim, side>>

\* Iterator::operator++ of an iterator that is not end(): match(method_)
Increment ==
  /\ pc = "idle"
  /\ nops < lim
  /\ it.matcher_ # 0
  /\ it' = [it EXCEPT !.incs = @ + 1]
  /\ m' = matchBegin(m)
  /\ pc' = "iter"
  /\ nread' = 0
  /\ kept' = <<>>
  /\ UNCHANGED <<op, base, nops, lim, side>>

\* Iterator::operator++(int) of an iterator that is not end(): Iterator it =
\* *this; operator++(); return it.  kept is what the lexer saw through the
\* iterator before the call
PostIncrement ==
  /\ pc = "idle"
  /\ nops < lim
  /\ it.matcher_ # 0
  /\ it' = [it EXCEPT !.incs = @ + 1]
  /\ m' = matchBegin(m)
  /\ pc' = "iter"
  /\ nread' = 0
  /\ kept' = <<text(m), size(m), accept(m)>>
  /\ UNCHANGED <<op, base, nops, lim, side>>

\* a split at the end of the input returns the last, empty span with
\* Const::EMPTY, once
MatchSplitEnd ==
  /\ pc = "iter"
  /\ it.method_ = SPLIT
  /\ hit_end(m)
  /\ m.cap_ # EMPTY
  /\ MatchReturns(EMPTY)
  /\ m' = matchReturn(m, m.txt_, m.pos_, EMPTY)

\* matches() calls match(Const::MATCH)
MatchesBegin ==
  /\ pc = "idle"
  /\ nops < lim
  /\ matchesCalls(m)
  /\ m' = matchBegin(m)
  /\ pc' = "matches"
  /\ nread' = 0
  /\ kept' = <<>>
  /\ UNCHANGED <<op, base, nops, lim, it, side>>

\* matches() after match(Const::MATCH) returned
MatchesEnd ==
  /\ pc = "at_end"
  /\ \E w \in Refills(m) : m' = matchesEnd(m, w)
  /\ pc' = "idle"
  /\ UNCHANGED <<nread, op, base, nops, lim, kept, it, side>>

\* matches() when it does not call match
MatchesAgain ==
  /\ Call("matches_again")
  /\ ~matchesCalls(m)
  /\ m' = m
  /\ UNCHANGED base

\* the pattern objects no matcher has deleted, and the matchers not destroyed
LivePatterns == {p \in 1 .. Len(heap) : heap[p].dels = 0}
LiveMatchers == {k \in 1 .. Len(pm) : pm[k].live}

\* the lexer makes a pattern object of its own
NewPattern ==
  /\ Len(heap) < MaxPatterns
  /\ heap' = newPattern(heap, 0)
  /\ UNCHANGED <<core, pm, bits>>

ConstructObject ==
  /\ Len(pm) < MaxMatchers
  /\ \E p \in LivePatterns : pm' = Append(pm, constructObject(p))
  /\ UNCHANGED <<core, heap, bits>>

ConstructRegex ==
  /\ Len(pm) < MaxMatchers
  /\ Len(heap) < MaxPatterns
  /\ pm' = Append(pm, constructRegex(heap))
  /\ heap' = newPattern(heap, Len(pm) + 1)
  /\ UNCHANGED <<core, bits>>

CopyMatcher ==
  /\ Len(pm) < MaxMatchers
  /\ \E k \in LiveMatchers : pm' = Append(pm, copyMatcher(pm[k], k))
  /\ UNCHANGED <<core, heap, bits>>

PatternObject ==
  /\ \E k \in LiveMatchers, p \in LivePatterns :
       LET r == patternObject(pm[k], heap, p)
       IN  pm' = [pm EXCEPT ![k] = r[1]] /\ heap' = r[2]
  /\ UNCHANGED <<core, bits>>

PatternRegex ==
  /\ Len(heap) < MaxPatterns
  /\ \E k \in LiveMatchers :
       LET r == patternRegex(pm[k], heap, k)
       IN  pm' = [pm EXCEPT ![k] = r[1]] /\ heap' = r[2]
  /\ UNCHANGED <<core, bits>>

Destroy ==
  /\ \E k \in LiveMatchers :
       LET r == destroy(pm[k], heap)
       IN  pm' = [pm EXCEPT ![k] = r[1]] /\ heap' = r[2]
  /\ UNCHANGED <<core, bits>>

\* the positions the lexer sets and erases bits at
Marks == {0, 1, 63, 64, 70, 127, 128, MaxBit}

Insert ==
  /\ \E n \in Marks : bits' = insert(bits, n)
  /\ UNCHANGED <<core, pm, heap>>

\* insert(n1, n2) of a range of at most MaxRun bits
InsertRange ==
  /\ \E n1 \in Marks, n2 \in Marks :
       /\ n1 <= n2
       /\ n2 - n1 < MaxRun
       /\ bits' = insertRange(bits, n1, n2)
  /\ UNCHANGED <<core, pm, heap>>

Erase ==
  /\ \E n \in Marks : bits' = erase(bits, n)
  /\ UNCHANGED <<core, pm, heap>>

EraseRange ==
  /\ \E n1 \in Marks, n2 \in Marks : n1 <= n2 /\ bits' = eraseRange(bits, n1, n2)
  /\ UNCHANGED <<core, pm, heap>>

Next ==
  \/ Reset
  \/ InputSource
  \/ Buffer
  \/ MatchBegin
  \/ MatchGet
  \/ MatchAccept
  \/ MatchFail
  \/ Input
  \/ Unput
  \/ Rest
  \/ More
  \/ Less
  \/ Flush
  \/ SetEnd
  \/ SetBol
  \/ AtEnd

Spec == Init /\ [][Next]_vars

(***************************************************************************)
(* Lexers that use some of the operations only, so that their runs can be  *)
(* longer: SpecScan only matches; SpecLex matches and calls input();       *)
(* SpecEdit also calls unput(c) and rest(); SpecPush matches, calls        *)
(* unput(c) and flush(); SpecQuery matches and calls the operations that   *)
(* are to leave the match alone: at_end(), set_bol(b) and set_end(b);      *)
(* SpecRaw never matches: it reads with input() and at_end(), sets the     *)
(* block size, pushes bytes back and flushes.                              *)
(***************************************************************************)
InitScan == InitWith(MaxOps + 2)

NextScan ==
  \/ MatchBegin
  \/ MatchGet
  \/ MatchAccept
  \/ MatchFail

SpecScan == InitScan /\ [][NextScan]_vars

InitLex == InitWith(MaxOps + 1)

NextLex ==
  \/ MatchBegin
  \/ MatchGet
  \/ MatchAccept
  \/ MatchFail
  \/ Input

SpecLex == InitLex /\ [][NextLex]_vars

InitEdit == InitWith(MaxOps)

NextEdit ==
  \/ MatchBegin
  \/ MatchGet
  \/ MatchAccept
  \/ MatchFail
  \/ Input
  \/ Unput
  \/ Rest

SpecEdit == InitEdit /\ [][NextEdit]_vars

InitPush == InitWith(MaxOps + 1)

NextPush ==
  \/ MatchBegin
  \/ MatchGet
  \/ MatchAccept
  \/ MatchFail
  \/ Unput
  \/ Flush

SpecPush == InitPush /\ [][NextPush]_vars

InitQuery == InitWith(MaxOps)

NextQuery ==
  \/ MatchBegin
  \/ MatchGet
  \/ MatchAccept
  \/ MatchFail
  \/ AtEnd
  \/ SetBol
  \/ SetEnd

SpecQuery == InitQuery /\ [][NextQuery]_vars

InitRaw == InitWith(MaxOps + 1)

NextRaw ==
  \/ Buffer
  \/ Input
  \/ AtEnd
  \/ Unput
  \/ Flush

SpecRaw == InitRaw /\ [][NextRaw]_vars

\* a lexer that matches and calls more()
InitMore == InitWith(MaxOps + 1)

NextMore ==
  \/ MatchBegin
  \/ MatchGet
  \/ MatchAccept
  \/ MatchFail
  \/ More

SpecMore == InitMore /\ [][NextMore]_vars

\* a lexer that matches and calls input() and less(n)
InitLess == InitWith(MaxOps + 1)

NextLess ==
  \/ MatchBegin
  \/ MatchGet
  \/ MatchAccept
  \/ MatchFail
  \/ Input
  \/ Less

SpecLess == InitLess /\ [][NextLess]_vars

\* a lexer that matches and calls rest() and at_end()
InitTail == InitWith(MaxOps + 1)

NextTail ==
  \/ MatchBegin
  \/ MatchGet
  \/ MatchAccept
  \/ MatchFail
  \/ Rest
  \/ AtEnd

SpecTail == InitTail /\ [][NextTail]_vars

\* a lexer of a subclass with wrap(): it reads with input() and at_end(),
\* sets the block size and flushes
InitWrap == InitOn(WrapSources, MaxOps + 1)

NextWrap ==
  \/ Buffer
  \/ Input
  \/ AtEnd
  \/ Flush

SpecWrap == InitWrap /\ [][NextWrap]_vars

\* a lexer of a subclass with wrap(): it matches, reads with input(), asks
\* at_end() and takes the rest of the input
InitDrain == InitOn(WrapSources, MaxOps + 1)

NextDrain ==
  \/ MatchBegin
  \/ MatchGet
  \/ MatchAccept
  \/ MatchFail
  \/ Input
  \/ AtEnd
  \/ Rest

SpecDrain == InitDrain /\ [][NextDrain]_vars

\* a matcher constructed without an option string, then reset with and
\* without option strings, reading with input() in between
InitOpt ==
  /\ \E inp \in {i \in Sources : i.total <= 1}, o \in OptIndet :
       m = ConstructedNull(inp, o)
  /\ pc = "idle"
  /\ nread = 0
  /\ op = "new"
  /\ base = 0
  /\ nops = 0
  /\ lim = MaxOps - 1
  /\ kept = <<>>
  /\ it = NoIterator
  /\ NoSide

NextOpt ==
  \/ ResetOptions
  \/ Reset
  \/ Input

SpecOpt == InitOpt /\ [][NextOpt]_vars

\* a program that makes, rebinds, copies and destroys pattern matchers
InitPat ==
  /\ InitCore({i \in Sources : i.total = 0}, 0)
  /\ pm = <<>> /\ heap = <<>> /\ bits = NoBits

NextPat ==
  \/ NewPattern
  \/ ConstructObject
  \/ ConstructRegex
  \/ CopyMatcher
  \/ PatternObject
  \/ PatternRegex
  \/ Destroy

SpecPat == InitPat /\ [][NextPat]_vars

\* a program that sets and erases the bits of a Bits object
InitBits ==
  /\ InitCore({i \in Sources : i.total = 0}, 0)
  /\ pm = <<>> /\ heap = <<>> /\ bits = NoBits

NextBits ==
  \/ Insert
  \/ InsertRange
  \/ Erase
  \/ EraseRange

SpecBits == InitBits /\ [][NextBits]_vars

\* a lexer that walks the matcher with an iterator: begin(), then operator++
InitIter == InitWith(MaxOps)

NextIter ==
  \/ Begin
  \/ Increment
  \/ MatchGet
  \/ MatchAccept
  \/ MatchFail
  \/ MatchSplitEnd

SpecIter == InitIter /\ [][NextIter]_vars

\* a lexer that walks the matcher with it++
InitPost == InitWith(MaxOps)

NextPost ==
  \/ Begin
  \/ PostIncrement
  \/ MatchGet
  \/ MatchAccept
  \/ MatchFail
  \/ MatchSplitEnd

SpecPost == InitPost /\ [][NextPost]_vars

\* a lexer that asks matches(), reads with input() and resets
InitMemo == InitWith(MaxOps + 1)

NextMemo ==
  \/ MatchesBegin
  \/ MatchGet
  \/ MatchAccept
  \/ MatchFail
  \/ MatchesEnd
  \/ MatchesAgain
  \/ Input
  \/ Reset

SpecMemo == InitMemo /\ [][NextMemo]_vars

(***************************************************************************)
(* What the properties below speak of.                                     *)
(***************************************************************************)
Idle == pc = "idle"
\* the step is the return of the public operation name
Returned(name) == pc' = "idle" /\ nops' = nops + 1 /\ op' = name
\* the step is the return of any public operation
ReturnedAny == pc' = "idle" /\ nops' = nops + 1
\* the last operation was a match and it succeeded
Matched == Idle /\ op = "match" /\ m.cap_ # 0
\* the input: the bytes the source handed out since the last reset
Hist == SubSeq(m.in.data, base + 1, Len(m.in.data))
\* the offset in the input of the byte at txt_
TrueFirst == m.org + Idx(m.txt_)
\* the number of newlines among the first k bytes of the input
NLBefore(k) == Cardinality({i \in 1 .. k : Hist[i] = NL})
\* the offsets below k of the newlines of the input
NLOffsets(k) == {i - 1 : i \in {j \in 1 .. k : Hist[j] = NL}}
\* get() or peek(), called now, would call grow()
GrowSite == m.pos_ >= m.end_ /\ ~m.eof_ /\ m.end_ = m.max_
\* get() or peek(), called now, would read from the source
RefillSite == m.pos_ >= m.end_ /\ ~m.eof_
\* the matcher as get() and peek() have it when they read from the source
Refilled == IF m.end_ = m.max_ THEN grow(m, BLOCK) ELSE m
\* the bytes from txt_ up to end_
Window(mm) ==
  [i \in 1 .. Idx(Wrap(mm.end_ - mm.txt_)) |-> Rd(mm.buf_, Wrap(mm.txt_ + (i - 1)))]

C2_RefillFits ==
  /\ m.end_ <= m.max_
  /\ RefillSite => ReadSize(Refilled) <= Refilled.max_ - Refilled.end_

(***************************************************************************)
(* C3                                                                      *)
(***************************************************************************)
\* C3: after a successful match, any number of input() calls leave the
\* match view valid: text() and size() are unchanged and the byte at
\* txt_start + txt_len is still 0, also when the match ended at the end of
\* the buffered window.  (Checked of a lexer that only matches and calls
\* input(): there cap_ # 0 says that the last match succeeded and that only
\* input() was called since.)
C3_InputKeepsView ==
  [][(Returned("input") /\ m.cap_ # 0) =>
        /\ text(m') = text(m)
        /\ size(m') = size(m)
        /\ textEnd(m') = 0
     ]_vars

(***************************************************************************)
(* C4                                                                      *)
(***************************************************************************)
\* the values the most recent match fixed
Observed(mm) ==
  <<text(mm), size(mm), first(mm), last(mm), lineno(mm), columno(mm), accept(mm)>>

\* C4: text(), size(), first(), last(), lineno(), columno() and accept() are
\* not changed by an operation that is not one of the mutating primitives:
\* at_end(), set_bol(b) and set_end(b) leave them as they were (hit_end(),
\* at_bob() and at_bol() are const and change nothing), also when at_end()
\* refills or shifts the buffer.  (Checked of a lexer that only matches and
\* calls these operations: there cap_ # 0 says that a match is held and
\* that no mutating primitive was called since.)
C4_QueriesKeepMatch ==
  [][((Returned("at_end") \/ Returned("set_bol") \/ Returned("set_end"))
        /\ m.cap_ # 0)
        => Observed(m') = Observed(m)
     ]_vars

(***************************************************************************)
(* C5                                                                      *)
(***************************************************************************)
\* C5: for every sequence of matches, input(), unput(c) and rest(), with the
\* shifts and expansions of the buffer they cause, first() + size() = last()
\* and first() is the offset, in the bytes the source produced, of the
\* first byte of the match (here: of a match that begins with a byte of the
\* source).
C5_FirstIsOffset ==
  (Matched /\ TrueFirst >= 0) =>
     /\ first(m) = TrueFirst
     /\ Wrap(first(m) + size(m)) = last(m)

(***************************************************************************)
(* C6                                                                      *)
(***************************************************************************)
\* C6: for every sequence of matches interleaved with input() calls,
\* lineno() is 1 plus the number of newline bytes among the first first()
\* bytes of the input, a newline consumed by input() included.
C6_LinenoCountsNewlines ==
  Matched =>
     /\ first(m) <= Len(Hist)
     /\ lineno(m) = 1 + NLBefore(first(m))

C8_GrowKeepsPosition ==
  (Idle /\ m.cap_ # 0 /\ GrowSite) =>
     /\ lineno(grow(m, BLOCK)) = lineno(m)
     /\ columno(grow(m, BLOCK)) = columno(m)
     /\ first(grow(m, BLOCK)) = first(m)

(***************************************************************************)
(* C9                                                                      *)
(***************************************************************************)
\* C9: grow(), called in any reachable state, does not change the logical
\* bytes: the text and the bytes up to end are the same before and after,
\* cursor, pos and end keep their distance to txt_start, and no index wraps
\* below zero.
C9_GrowKeepsBytes ==
  GrowSite =>
     LET g == grow(m, BLOCK)
     IN  /\ text(g) = text(m)
         /\ Window(g) = Window(m)
         /\ Idx(g.cur_) >= 0 /\ Idx(g.pos_) >= 0 /\ Idx(g.end_) >= 0
         /\ Idx(g.cur_) - Idx(g.txt_) = Idx(m.cur_) - Idx(m.txt_)
         /\ Idx(g.pos_) - Idx(g.txt_) = Idx(m.pos_) - Idx(m.txt_)
         /\ Idx(g.end_) - Idx(g.txt_) = Idx(m.end_) - Idx(m.txt_)

(***************************************************************************)
(* C10                                                                     *)
(***************************************************************************)
\* the state reset() is to leave, as the accessors show it
ResetState(mm) ==
  /\ size(mm) = 0
  /\ textEnd(mm) = 0
  /\ text(mm) = <<>>
  /\ accept(mm) = 0
  /\ first(mm) = 0
  /\ lineno(mm) = 1
  /\ columno(mm) = 0
  /\ at_bob(mm)
  /\ ~mm.eof_
  /\ ~mm.mat_

\* C10: reset() is idempotent, and the state it leaves has an empty text
\* (size 0, text()[0] = 0), accept 0, first 0, lineno 1, columno 0, at_bob,
\* eof false and the matches() memo cleared; input(source) leaves the same
\* state and keeps the options.
C10_ResetIdempotent ==
  [][/\ Returned("reset") =>
          /\ ResetState(m')
          /\ reset(m') = m'
          /\ m'.opt_ = m.opt_
          /\ m'.in = m.in
     /\ (Returned("reset") /\ op = "reset") => m' = m
     /\ Returned("input_source") =>
          /\ ResetState(m')
          /\ m'.opt_ = m.opt_
          /\ [m' EXCEPT !.in = m.in] = reset(m)
     ]_vars

\* reset() of a matcher that has matched: bytes were read, a text was held
C10_ResetAfterUse ==
  /\ Idle /\ op = "reset" /\ nops >= 2
  /\ base > 0
  /\ ResetState(m)
  /\ m.buf_[1] # Indet

(***************************************************************************)
(* C11                                                                     *)
(***************************************************************************)
\* the number of input() calls a property follows: more than any source has
MaxInputs == MaxSrc + 2

RECURSIVE inputs(_, _, _, _)
\* the characters k calls of input() return one after the other, when w is
\* all that the source still holds and it hands out at most cap bytes a call
inputs(mm, w, cap, k) ==
  IF k = 0 THEN <<>>
  ELSE LET r == input(mm, SubSeq(w, 1, Min(cap, Len(w))))
           c == Len(r[1].in.data) - Len(mm.in.data)
       IN  <<r[2]>> \o inputs(r[1], SubSeq(w, c + 1, Len(w)), cap, k - 1)

\* C11: round trip: if c = input() returns a byte (not EOF) and unput(c) is
\* called next, the input() calls that follow return c and then what they
\* would have returned without the round trip, whatever the source holds
\* and however it hands it out.
C11_RoundTrip ==
  Idle =>
    \A w \in Future(m.in), cap \in 1 .. MaxSrc :
      LET r  == input(m, SubSeq(w, 1, Min(cap, Len(w))))
          c  == r[2]
          w1 == SubSeq(w, (Len(r[1].in.data) - Len(m.in.data)) + 1, Len(w))
      IN  c \in 0 .. 255 =>
            inputs(unput(r[1], c), w1, cap, MaxInputs)
              = <<c>> \o inputs(r[1], w1, cap, MaxInputs - 1)

\* input() returned a byte of the source, unput(c) has put that byte back,
\* and input() would return it again
C11_PutBack ==
  /\ Idle /\ op = "unput" /\ nops >= 2
  /\ m.got_ \in SrcBytes /\ m.chr_ = m.got_
  /\ m.pos_ < m.end_
  /\ \E w \in Future(m.in) : inputs(m, w, MaxSrc, 2)[1] = m.got_

(***************************************************************************)
(* C12                                                                     *)
(***************************************************************************)
\* C12: every call unput(c), with pos > 0 as with pos = 0, invalidates the
\* current match: afterwards size() = 0 and the match starts at the new
\* pos (txt_len = 0, txt_start = pos).
C12_UnputInvalidates ==
  [][Returned("unput") => (size(m') = 0 /\ m'.txt_ = m'.pos_)]_vars

(***************************************************************************)
(* C13                                                                     *)
(***************************************************************************)
RECURSIVE gets(_, _, _)
\* the characters k calls of get() return one after the other, when w is
\* all that the source still holds
gets(mm, w, k) ==
  IF k = 0 THEN <<>>
  ELSE LET r == get(mm, w)
           c == Len(r[1].in.data) - Len(mm.in.data)
       IN  <<r[2]>> \o gets(r[1], SubSeq(w, c + 1, Len(w)), k - 1)

\* C13: a byte pushed back with unput(c) at pos = 0 is the next byte peek()
\* and get() see; pushed back when nothing is buffered yet (after reset()
\* on the input "bc", unput(a)), peek() returns it and the get() calls that
\* follow return it, then the bytes of the input, then EOF.
C13_UnputAtOrigin ==
  [][(Returned("unput") /\ m.pos_ = 0) =>
        \A w \in Future(m'.in) :
          /\ peek(m', w)[2] = m'.chr_
          /\ get(m', w)[2] = m'.chr_
          /\ (m.end_ = 0 /\ ~m.eof_)
               => gets(m', w, Len(w) + 2) = <<m'.chr_>> \o w \o <<EOB>>
     ]_vars

(***************************************************************************)
(* C14                                                                     *)
(***************************************************************************)
\* C14: more() after an accepted match rewinds the cursor to the start of
\* that match and changes nothing else, so that the next span accepted by
\* an engine that starts at the cursor starts at the prior match's
\* txt_start (the same first()) and has the prior match's bytes as a
\* prefix, also when the buffer is shifted or expanded in between.
C14_MoreExtends ==
  [][/\ (Returned("more") /\ op = "match" /\ m.cap_ # 0) =>
          /\ m'.cur_ = m.txt_
          /\ m' = [m EXCEPT !.cur_ = m'.cur_]
     /\ (pc = "match" /\ pc' = "idle" /\ kept # <<>> /\ m'.cap_ # 0
           /\ m'.txt_ = m.txt_) =>
          /\ first(m') = kept[2]
          /\ size(m') >= Len(kept[1])
          /\ SubSeq(text(m'), 1, Len(kept[1])) = kept[1]
     ]_vars

\* a match accepted after more(): it starts where the prior match started
\* and is longer than it
C14_Extended ==
  /\ Idle /\ op = "match" /\ m.cap_ # 0
  /\ kept # <<>> /\ kept[1] # <<>>
  /\ first(m) = kept[2]
  /\ size(m) > Len(kept[1])
  /\ SubSeq(text(m), 1, Len(kept[1])) = kept[1]

Ahead(w) == SubSeq(Hist \o w, (m.org + Idx(m.pos_)) + 1, Len(Hist) + Len(w))

\* C16: no sequence of lexer actions loses an input byte to the NUL
\* sentinel: after matches, input() calls and less(n), what later reads
\* see from the cursor on is exactly the bytes of the input: the input()
\* calls that follow return them one by one and then EOF.
C16_NoByteLost ==
  Idle =>
    \A w \in Future(m.in) :
      inputs(m, w, MaxSrc, Len(Ahead(w)) + 1) = Ahead(w) \o <<EOB>>

(***************************************************************************)
(* C17                                                                     *)
(***************************************************************************)
\* the bytes of the input after the first k, once mm has read them
InputAfter(mm, k) == SubSeq(mm.in.data, (base + k) + 1, Len(mm.in.data))

\* C17: rest() called after a match returns as text() exactly the bytes of
\* the input that follow the cursor up to the end of the source,
\* NUL-terminated and with size() their number, and afterwards at_end() is
\* true.
C17_RestIsTail ==
  [][(Returned("rest") /\ op = "match" /\ m.cap_ # 0) =>
        /\ Len(m'.in.data) = m'.in.total
        /\ text(m') = InputAfter(m', m.org + Idx(m.pos_))
        /\ size(m') = Len(InputAfter(m', m.org + Idx(m.pos_)))
        /\ textEnd(m') = 0
        /\ at_end(m', <<NL>>)[2]
     ]_vars

(***************************************************************************)
(* C18                                                                     *)
(***************************************************************************)
\* what get() and peek() would return now, for what the source hands out
Fetches(w) == {get(m, w), peek(m, w)}

\* C18: get() and peek() report EOF only with eof set, and set eof only
\* after a refill that returned 0 bytes and a wrap() that returned false:
\* the source is at its end and has no successor.  While the source or a
\* successor still has a byte, a refill delivers the next byte without
\* reporting EOF and without setting eof: a short read of k > 0 bytes does
\* not set it, and after a wrap() that returned true the read is retried.
C18_EofAfterWrapRefuses ==
  Idle =>
    \A w \in Refills(m) : \A r \in Fetches(w) :
      /\ r[2] = EOB => r[1].eof_
      /\ (~m.eof_ /\ r[1].eof_) =>
           /\ r[2] = EOB
           /\ r[1].in.next = <<>>
           /\ Len(r[1].in.data) = r[1].in.total
      /\ (~m.eof_ /\ m.pos_ >= m.end_ /\ Left(m.in) > 0) =>
           /\ r[2] = w[1]
           /\ ~r[1].eof_
           /\ Len(r[1].in.data) > Len(m.in.data)

\* input() has read a byte of a successor source: wrap() returned true and
\* eof is not set
C18_Wrapped ==
  /\ Idle /\ op = "input"
  /\ m.in.from > 0
  /\ Len(m.in.data) > m.in.from
  /\ m.got_ = m.in.data[Len(m.in.data)]
  /\ ~m.eof_

(***************************************************************************)
(* C19                                                                     *)
(***************************************************************************)
\* the step is the return of an operation that starts the input anew or
\* reads it whole: reset(), input(source), buffer(n)
Restarted == Returned("reset") \/ Returned("input_source") \/ Returned("buffer")

\* C19, as stated: once eof is true, no operation other than reset() and
\* input(source) appends bytes to the window: in every step taken with eof
\* true, of peek, get, input(), unput, rest, less, more, flush, set_end,
\* at_end or a match, end does not increase and the source is not read.
C19_EofFreezesWindow ==
  [][(m.eof_ /\ ~Restarted) => (m'.end_ <= m.end_ /\ m'.in = m.in)]_vars

\* C19, amended: while eof is true, no operation other than reset(),
\* input(source) and buffer(n) reads the source, and end increases only by
\* unput(c) at pos = 0, which adds 1 to it for the byte pushed back; eof
\* stays true until reset(), input(source) or set_end(false) clears it,
\* after which the source may be read again.
C19_EofKeepsSource ==
  [][(m.eof_ /\ ~Restarted) =>
        /\ m'.in = m.in
        /\ \/ m'.end_ <= m.end_
           \/ Returned("unput") /\ m.pos_ = 0 /\ m'.end_ = Wrap(m.end_ + 1)
        /\ m'.eof_ \/ (Returned("set_end") /\ m' = [m EXCEPT !.eof_ = FALSE])
     ]_vars

\* unput(c) at pos = 0 after the end of the input: eof is true and the
\* window is one byte longer than what the source handed out
C19_PushedAfterEof ==
  /\ Idle /\ op = "unput" /\ nops >= 2
  /\ m.eof_
  /\ m.org < 0
  /\ Len(m.in.data) = m.in.total
  /\ m.end_ = Len(Hist) + 1

(***************************************************************************)
(* C20                                                                     *)
(***************************************************************************)
\* C20: buffer(0), called at the begin of the input on a source whose size
\* n > 0 is known, returns true (it has set eof) only if all n bytes of the
\* source are then in the window (end = n), so that the input() calls that
\* follow return exactly those n bytes and then EOF.
C20_BufferHoldsAll ==
  [][(Returned("buffer") /\ at_bob(m) /\ m.end_ = 0 /\ ~m.eof_
        /\ m'.blk_ = 0 /\ m'.eof_) =>
        /\ InSize(m.in) > 0
        /\ m'.end_ = InSize(m.in)
        /\ inputs(m', <<>>, 1, InSize(m.in) + 1)
             = SubSeq(m'.in.data, Len(m.in.data) + 1, Len(m'.in.data)) \o <<EOB>>
     ]_vars

(***************************************************************************)
(* C21                                                                     *)
(***************************************************************************)
\* every 'T' of opt is followed by a digit 1..9, or by '=' and such a digit
WellFormed(opt) ==
  \A i \in 1 .. Len(opt) :
    opt[i] = 84 =>
      LET j == IF CharAt(opt, i + 1) = 61 THEN i + 2 ELSE i + 1
      IN  CharAt(opt, j) \in 49 .. 57
\* the places of the 'T's of opt
TabSets(opt) == {i \in 1 .. Len(opt) : opt[i] = 84}
\* the digit the 'T' at i is followed by
TabDigit(opt, i) ==
  CharAt(opt, IF CharAt(opt, i + 1) = 61 THEN i + 2 ELSE i + 1) - 48
\* the options a well-formed option string asks for
Asked(opt) ==
  [A |-> \E i \in 1 .. Len(opt) : opt[i] = 65,
   N |-> \E i \in 1 .. Len(opt) : opt[i] = 78,
   T |-> IF TabSets(opt) = {} THEN 8 ELSE TabDigit(opt, MaxOf(TabSets(opt)))]

\* C21: reset(opt) with an option string first restores the defaults
\* (A=false, N=false, T=8), whatever the options were, and then scans left
\* to right: 'A' sets A, 'N' sets N, 'T' followed by an optional '=' and a
\* digit d sets the tab width to d, and every other character is ignored;
\* "A;T=4" gives A=true, N=false, T=4.  (For the strings whose every 'T' has
\* its digit 1..9.)
C21_OptionsParsed ==
  Idle =>
    /\ \A opt \in OptStrings : \A after \in OptAfter :
         WellFormed(opt) =>
           resetOptions(m, OptMemory(opt, after)).opt_ = Asked(opt)
    /\ resetOptions(m, OptMemory(<<65, 59, 84, 61, 52>>, <<>>)).opt_
         = [A |-> TRUE, N |-> FALSE, T |-> 4]

\* reset(opt) with a string that has the options of "A;T=4" ("AT=4") was
\* called on a matcher that had read input
C21_Parsed ==
  /\ Idle /\ op = "reset_opt" /\ nops >= 2
  /\ m.opt_ = [A |-> TRUE, N |-> FALSE, T |-> 4]
  /\ m.opt_ = resetOptions(m, OptMemory(<<65, 59, 84, 61, 52>>, <<>>)).opt_
  /\ ResetState(m)
  /\ base > 0

(***************************************************************************)
(* C22                                                                     *)
(***************************************************************************)
RECURSIVE Tolerant(_, _, _)
\* the options of a parse that ignores a 'T' without its digit 1..9 and
\* goes on with the character after that 'T'
Tolerant(o, opt, i) ==
  IF i > Len(opt) THEN o
  ELSE IF opt[i] = 65 THEN Tolerant([o EXCEPT !.A = TRUE], opt, i + 1)
  ELSE IF opt[i] = 78 THEN Tolerant([o EXCEPT !.N = TRUE], opt, i + 1)
  ELSE IF opt[i] = 84
       THEN LET j == IF CharAt(opt, i + 1) = 61 THEN i + 2 ELSE i + 1
            IN  IF CharAt(opt, j) \in 49 .. 57
                THEN Tolerant([o EXCEPT !.T = CharAt(opt, j) - 48], opt, j + 1)
                ELSE Tolerant(o, opt, i + 1)
  ELSE Tolerant(o, opt, i + 1)

\* C22: a malformed option is ignored and the default kept: for every
\* option string the tab width after reset(opt) is in 1..9, and a 'T' that
\* is not followed by a digit 1..9 ("T", "T=", "T=;", "T=0", "TA") leaves
\* the tab width as it was (8 when no other 'T' sets it) and does not
\* suppress the options that follow it.
C22_MalformedIgnored ==
  Idle =>
    \A opt \in OptStrings : \A after \in OptAfter :
      LET o == resetOptions(m, OptMemory(opt, after)).opt_
      IN  /\ o.T \in 1 .. 9
          /\ o = Tolerant(OptDefaults, opt, 1)

(***************************************************************************)
(* C23                                                                     *)
(***************************************************************************)
\* C23: a matcher constructed without an option string has the default
\* options A=false, N=false, T=8, and reset() without an argument never
\* changes the options.
C23_DefaultsWithoutString ==
  /\ nops = 0 => m.opt_ = OptDefaults
  /\ Idle => reset(m).opt_ = m.opt_

\* the results of the matches made for the iterator, oldest first
Results == [k \in 1 .. Len(it.log) |-> it.log[k][2]]
\* the iterator has been made by begin() and is not in a match
Walking == Idle /\ it.log # <<>>
\* what holds of an iterator between the lexer's calls
IteratorState ==
  /\ Len(it.log) = IF Walking THEN 1 + it.incs ELSE it.incs
  /\ \A k \in 1 .. Len(it.log) : it.log[k][1] = it.method_
  /\ \A k \in 1 .. Len(it.log) - 1 : Results[k] # 0
  /\ Walking =>
       /\ \A e \in Ends : IteratorEq(it, e) <=> Results[Len(it.log)] = 0
       /\ IteratorEq(it, Iterator(it.method_)) <=> Results[Len(it.log)] # 0
       /\ IteratorEq(it, it)
       /\ \A e1 \in Ends, e2 \in Ends : IteratorEq(e1, e2)

\* C24: begin() resets the matcher and makes one match with the iterator's
\* method; each operator++ makes exactly one more match with that method;
\* the iterator equals end() exactly when a match made for it returned 0,
\* so a nonzero result, Const::EMPTY included, is an element of the walk
\* and the walk is the nonzero results before the first 0; two iterators
\* are equal iff both are end() or both point to the matcher.
C24_IteratorProtocol ==
  [][/\ IteratorState'
     /\ (pc = "idle" /\ pc' = "iter" /\ it'.incs = 0) =>
          /\ m' = matchBegin(reset(m))
          /\ it'.matcher_ = 1 /\ it'.log = <<>>
     /\ (pc = "idle" /\ pc' = "iter" /\ it'.incs # 0) =>
          /\ m' = matchBegin(m)
          /\ it'.incs = it.incs + 1
          /\ it'.method_ = it.method_ /\ it'.log = it.log
     /\ (pc = "iter" /\ pc' = "idle") =>
          /\ Len(it'.log) = Len(it.log) + 1
          /\ it'.log[Len(it'.log)] = <<it.method_, m'.cap_>>
          /\ it'.matcher_ = IF m'.cap_ = 0 THEN 0 ELSE it.matcher_]_vars

\* a walk of a split: a span, the empty last split, then the end
C24_WalkedToEnd ==
  /\ Walking
  /\ Len(it.log) = 3
  /\ Results[1] = 1 /\ Results[2] = EMPTY /\ Results[3] = 0
  /\ \A e \in Ends : IteratorEq(it, e)

\* a step in which reset() or input(source) returns
Restarts == ReturnedAny /\ op' \in {"reset", "input_source"}

\* C25: matches() is memoized: once mat_ is set, matches() returns the
\* same nonzero value without calling the engine's match and without
\* reading the source, until reset() or input(source), which clear it;
\* mat_ is set only when matches() called match at the begin of the input,
\* match returned nonzero and at_end() held afterwards.
C25_MatchesMemo ==
  [][/\ (pc = "idle" /\ m.mat_) => pc' # "matches"
     /\ Returned("matches_again") =>
          m' = m /\ matchesResult(m') = matchesResult(m)
     /\ (pc = "idle" /\ pc' = "matches") => (at_bob(m) /\ ~m.mat_)
     /\ (~m.mat_ /\ m'.mat_) =>
          /\ pc = "at_end" /\ pc' = "idle" /\ op = "matches"
          /\ m.cap_ # 0
          /\ m'.pos_ = m'.end_ /\ m'.eof_
     /\ (pc' = "idle" /\ op' = "matches" /\ matchesResult(m') # 0) =>
          (m'.cap_ # 0 /\ m'.pos_ = m'.end_ /\ m'.eof_)
     /\ Restarts => ~m'.mat_
     /\ (m.mat_ /\ ~Restarts) => (m'.mat_ /\ matchesResult(m') = 1)]_vars

\* matches() returned nonzero for a source of some bytes, and was asked again
C25_AskedAgain ==
  /\ Idle
  /\ op = "matches_again"
  /\ m.mat_
  /\ Hist # <<>>

\* the pattern objects matchers have compiled
Compiled == {p \in 1 .. Len(heap) : heap[p].made # 0}
\* matcher k holds the pattern object p it compiled
Holds(k, p) == pm[k].live /\ pm[k].own_ /\ pm[k].pat_ = p
\* what holds of the pattern objects between the operations
Ownership ==
  /\ \A p \in Compiled :
       heap[p].dels = IF Holds(heap[p].made, p) THEN 0 ELSE 1
  /\ \A p \in 1 .. Len(heap) : heap[p].made = 0 => heap[p].dels = 0
  /\ \A k \in LiveMatchers : pm[k].own_ => heap[pm[k].pat_].made = k

\* C26: a pattern a matcher compiled from an expression is released exactly
\* once, when the matcher is next bound to another pattern or when it is
\* destroyed, and not before; a borrowed pattern is never released by a
\* matcher; a copied matcher has own_ = false and the pat_ of its source.
C26_PatternOwnership ==
  [][/\ Ownership'
     /\ \A p \in Compiled :
          (heap'[p].dels # heap[p].dels) =>
             /\ Holds(heap[p].made, p)
             /\ ~pm'[heap[p].made].live \/ pm'[heap[p].made].pat_ # p
     /\ (Len(pm') > Len(pm) /\ pm'[Len(pm')].from # 0) =>
          /\ pm'[Len(pm')].own_ = FALSE
          /\ pm'[Len(pm')].pat_ = pm[pm'[Len(pm')].from].pat_
          /\ heap' = heap]_vars

\* one compiled pattern was released by a rebind and one by a destructor,
\* and a copy that borrowed a compiled pattern has been destroyed
C26_ReleasedOnce ==
  /\ \E k \in 1 .. Len(pm), p \in Compiled :
       pm[k].live /\ heap[p].made = k /\ heap[p].dels = 1
  /\ \E k \in 1 .. Len(pm), p \in Compiled :
       ~pm[k].live /\ pm[k].own_ /\ pm[k].pat_ = p /\ heap[p].dels = 1
  /\ \E k \in 1 .. Len(pm) :
       ~pm[k].live /\ pm[k].from # 0 /\ pm[k].pat_ \in Compiled

\* the offset in the input of the cursor of mm
CursorAt(mm) == mm.org + Idx(mm.cur_)
\* the bytes of the input from offset a (excluded: the first a bytes) to b
Between(a, b) == SubSeq(m'.in.data, (base + a) + 1, base + b)

\* C27: over SCAN matches and input() calls, the matched spans and the
\* bytes input() returns are, in order, the input from its begin to the
\* cursor: a scan that matches returns as text() the bytes from the cursor
\* to the new cursor, a scan that fails leaves the cursor, input() returns
\* the byte at the cursor and moves the cursor by one, or returns EOF at
\* the end of the input and leaves the cursor.  No byte is skipped or
\* delivered twice.
C27_DeliversPrefix ==
  [][/\ (pc = "match" /\ pc' = "idle" /\ m'.txt_ = m.txt_) =>
          /\ m.org + Idx(m.txt_) <= CursorAt(m')
          /\ CursorAt(m') <= Len(Hist')
          /\ text(m') = Between(m.org + Idx(m.txt_), CursorAt(m'))
          /\ m'.cap_ = 0 => CursorAt(m') = m.org + Idx(m.txt_)
     /\ (pc = "idle" /\ pc' = "match") =>
          m'.org + Idx(m'.txt_) = CursorAt(m)
     /\ (pc = "match" /\ pc' = "match") =>
          m'.org + Idx(m'.txt_) = m.org + Idx(m.txt_)
     /\ Returned("input") =>
          \A w \in Refills(m) :
            (input(m, w)[1] = m') =>
               IF input(m, w)[2] = EOB
               THEN /\ CursorAt(m') = CursorAt(m)
                    /\ CursorAt(m) = Len(Hist')
                    /\ Len(m'.in.data) = m'.in.total
               ELSE /\ CursorAt(m') = CursorAt(m) + 1
                    /\ <<input(m, w)[2]>> = Between(CursorAt(m), CursorAt(m'))]_vars

\* after a scan that matched, and a shift of the buffer, input() returned
\* the last byte of the input
C27_Delivered ==
  /\ Idle
  /\ op = "input"
  /\ nops >= 3
  /\ m.cap_ # 0
  /\ m.org > 0
  /\ m.got_ \in SrcBytes
  /\ CursorAt(m) = Len(Hist)
  /\ Len(Hist) = m.in.total

\* the positions of the bits of b that are set
SetBits(b) == {n \in 0 .. (b.len_ * 64 - 1) : test(b, n)}

\* C28: erase(n1, n2) clears every bit i with n1 <= i <= n2 that lies within
\* the vector and leaves every other bit as it was, also when n2 is at or
\* beyond the current size.
C28_EraseClearsRange ==
  \A n1 \in Marks, n2 \in Marks :
    n1 <= n2 =>
      SetBits(eraseRange(bits, n1, n2)) = SetBits(bits) \ (n1 .. n2)

\* digit | upper | lower, with '_' set: the example of the class
alnum ==
  insert(bitor(bitor(insertRange(NoBits, 48, 57), insertRange(NoBits, 65, 90)),
               insertRange(NoBits, 97, 122)), 95)

\* C29: the loop i = find_first(); i != npos; i = find_next(i) visits
\* exactly the set bits, each once, in strictly increasing order, and
\* count() is the number of set bits (63 for digits, upper, lower and '_').
C29_WalkVisitsSetBits ==
  LET w == Walk(bits)
  IN  /\ \A i \in 1 .. Len(w) - 1 : w[i] < w[i + 1]
      /\ {w[i] : i \in 1 .. Len(w)} = SetBits(bits)
      /\ count(bits) = Cardinality(SetBits(bits))
      /\ count(alnum) = 63
      /\ Len(Walk(alnum)) = 63

\* bits are set in the first and in a later word, at both ends of a word
C29_Walked ==
  /\ {63, 64, MaxBit} \subseteq SetBits(bits)
  /\ ~test(bits, 0)
  /\ count(bits) >= 4

\* the space grow may be asked for
Needs == 1 .. (BLOCK + 1)

\* C30: grow(need), called in any state with 0 < need, leaves the buffer
\* with max_ - end_ >= need, whatever txt_ and end_ are when it is called.
C30_GrowMakesRoom ==
  \A need \in Needs :
    LET g == grow(m, need) IN Wrap(g.max_ - g.end_) >= need

\* C31: set_current(loc), for 0 <= loc <= end_, sets pos_ = cur_ = loc, got_
\* to buf_[loc - 1] when loc > 0 and to BOB when loc = 0 (so that at_bob()
\* is true), and chr_ to buf_[loc] when loc < end_ and to UNK when loc =
\* end_.
C31_SetCurrent ==
  \A loc \in 0 .. Idx(m.end_) :
    LET s == set_current(m, loc)
    IN  /\ s.pos_ = loc /\ s.cur_ = loc
        /\ s.got_ = IF loc > 0 THEN Rd(m.buf_, loc - 1) ELSE BOB
        /\ loc = 0 => at_bob(s)
        /\ s.chr_ = IF loc < m.end_ THEN Rd(m.buf_, loc) ELSE UNK

\* the lexer-action primitives
Primitives == {"input", "unput", "less", "more", "rest", "flush"}
\* I5 of mm: got_ is the byte of the input before the cursor, or BOB when
\* the cursor is at offset 0 (said of cursors within the input read so far)
I5(mm) ==
  LET at == mm.org + Idx(mm.cur_)
      read == SubSeq(mm.in.data, base + 1, Len(mm.in.data))
  IN  /\ at = 0 => mm.got_ = BOB
      /\ at \in 1 .. Len(read) => mm.got_ = read[at]

\* C32: input(), unput(c), less(n), more(), rest() and flush() preserve I5:
\* afterwards got_ is the byte of the input before the position the next
\* match starts at, or BOB at offset 0, so that at_bol() is true exactly
\* when that byte is a newline and at_bob() exactly at offset 0.
C32_PrimitivesKeepI5 ==
  [][(ReturnedAny /\ op' \in Primitives /\ I5(m)) =>
        /\ I5(m')
        /\ at_bob(m') <=> CursorAt(m') = 0
        /\ CursorAt(m') \in 1 .. Len(Hist') =>
              (at_bol(m') <=> Hist'[CursorAt(m')] = NL)]_vars

\* C33: it++ returns an iterator to the match held before the increment:
\* text(), size() and accept() seen through the returned iterator are those
\* of the match before the increment, not those of the match it made.
C33_PostIncrementKeepsMatch ==
  [][(pc = "iter" /\ pc' = "idle" /\ kept # <<>>) =>
        LET seen == Deref(it, m')
        IN  <<text(seen), size(seen), accept(seen)>> = kept]_vars

\* C34: the option parser of reset(opt) reads no character beyond the
\* terminating NUL of the option string, for every option string, those
\* that end in 'T' or in 'T=' included.
C34_NoReadPastNul ==
  Idle =>
    \A opt \in OptStrings : \A after \in OptAfter :
      lastRead(OptMemory(opt, after), 1) <= Len(opt) + 1

(***************************************************************************)
(* C35                                                                     *)
(***************************************************************************)
\* the bytes the source has handed out that are still ahead of pos_
Unread(mm) == InputAfter(mm, mm.org + Idx(mm.pos_))

RECURSIVE afterGets(_, _, _)
\* the matcher k calls of get() leave, when w is all that the source and
\* its successors still hold
afterGets(mm, w, k) ==
  IF k = 0 THEN mm
  ELSE LET r == get(mm, w)
           c == Len(r[1].in.data) - Len(mm.in.data)
       IN  afterGets(r[1], SubSeq(w, c + 1, Len(w)), k - 1)

\* the source and its successors are read to their end and eof is set
Drained(mm) ==
  /\ mm.eof_
  /\ mm.in.next = <<>>
  /\ Len(mm.in.data) = mm.in.total

\* C35: peek(), get(), input() and rest() return once a read is empty and
\* wrap() returns false (the default wrap(): at the first empty read), and
\* by then every byte the source and its successors produced has been
\* delivered once, in order: the bytes still ahead of the read position,
\* then all that the sources still hold, then EOF.
C35_DrainsAndStops ==
  Idle =>
    \A w \in Future(m.in) :
      LET all == Unread(m) \o w
          n   == Len(all) + 1
          b   == matchBegin(m)
          r   == rest(m, w)
      IN  /\ \A cap \in 1 .. MaxPart :
               inputs(m, w, cap, n) = all \o <<EOB>>
          /\ gets(b, w, n) = all \o <<EOB>>
          /\ Drained(afterGets(b, w, n))
          /\ peek(b, w)[2] = (all \o <<EOB>>)[1]
          /\ Len(all) = 0 => Drained(peek(b, w)[1])
          /\ text(r) = all
          /\ Drained(r)

=============================================================================
